---- MODULE Spec2Model ----
(***************************************************************************)
(* A model of streamlit_app/app.py: the CSV loader (load_data), the        *)
(* interactive plots page (page_plots) and the MongoDB production          *)
(* dashboard (page_mongo_dashboard), as routed by main.                    *)
(*                                                                         *)
(* Streamlit reruns a page function from top to bottom on every            *)
(* interaction, with the widgets' current values as its inputs, so each    *)
(* page is one action whose inputs are the widget values.                  *)
(*                                                                         *)
(* Encodings.  An optional value (a float cell that may be NaN, a          *)
(* Timestamp that may be NaT) is <<v>> when present and <<>> when missing. *)
(* A Timestamp of the CSV index is the number of hours after               *)
(* 2021-01-01T00:00.  A quotient of floats n/d is kept exact as the pair   *)
(* <<n, d>>; 0/0 is NaN.                                                   *)
(***************************************************************************)
EXTENDS Integers, Sequences, FiniteSets, TLC

VARIABLES
    pc,                \* "start" | "loaded" | "plots" | "unavailable" | "mongo"
    raw,               \* the CSV file: [index: Seq(cell), columns, dtype, data]
    df,                \* the DataFrame load_data returned
    msgs,              \* what the last handler wrote with st.error/warning/caption
    exc,               \* an exception that escaped the last handler, or "none"
    idx_options_full,  \* page_plots: str(x) of every index entry
    idx_options,       \* page_plots: the slider's labels
    sel,               \* page_plots: the slider's value, a pair of labels (or <<>>)
    s_idx,             \* page_plots: resolved 0-based first row (-1: none)
    e_idx,             \* page_plots: resolved 0-based last row (-1: none)
    df_filtered,       \* page_plots: df.iloc[s_idx:e_idx + 1]
    chosen,            \* page_plots: the column selectbox; mongo: the group pills
    chart,             \* what the last handler passed to st.line_chart
    tab2,              \* page_plots: outcome of the dual-axis tab
    mongo,             \* the dashboard's environment: [password, reachable, docs]
    pa,                \* mongo: the chosen price area
    month,             \* mongo: the chosen month name
    agg,               \* mongo: the pie chart's series, a sequence of <<group, total>>
    df_m               \* mongo: row positions of the month selection

vars == <<pc, raw, df, msgs, exc, idx_options_full, idx_options, sel, s_idx, e_idx,
          df_filtered, chosen, chart, tab2, mongo, pa, month, agg, df_m>>

plotVars == <<idx_options_full, idx_options, sel, s_idx, e_idx, df_filtered,
              chosen, chart, tab2>>

mongoVars == <<mongo, pa, month, agg, df_m>>

-----------------------------------------------------------------------------
(* Bounds of the model *)

\* rows of an exhaustively enumerated CSV file
MaxRows == 3
\* timestamps 0..MaxT (hours) may occur in an enumerated index
MaxT == 1
\* numeric cells of an enumerated column are NaN or 0..MaxVal
MaxVal == 2
\* long indexes have k * 100 + d rows, for k in 1..MaxHundreds and d in -Margin..Margin
MaxHundreds == 2
Margin == 3
\* up to this many slider labels every pair is tried; beyond it first, middle, last
MaxPick == 4
\* documents in the MongoDB collection
MaxDocs == 3

-----------------------------------------------------------------------------
(* Helpers *)

NaN == <<>>

NaT == <<>>

Some(v) == <<v>>

Range(s) == {s[i] : i \in DOMAIN s}

SetMin(S) == CHOOSE x \in S : \A y \in S : x <= y

SetMax(S) == CHOOSE x \in S : \A y \in S : y <= x

EmptyFrame == [index |-> <<>>, columns |-> <<>>, dtype |-> <<>>, data |-> <<>>]

-----------------------------------------------------------------------------
(* load_data *)

\* datetime.strptime(x, "%Y-%m-%dT%H:%M"): the Timestamp written in x, or a
\* ValueError when x is not in that format.
custom_date_parser(x) ==
    IF x.fmt = "iso" THEN [ok |-> TRUE, value |-> Some(x.t)]
    ELSE [ok |-> FALSE, value |-> NaT]

\* pd.read_csv(path, index_col=0, parse_dates=True, date_parser=...): the
\* parser is applied to every non-empty index cell, an empty cell becomes NaT,
\* and an exception of the parser leaves read_csv.
read_csv(r) ==
    IF \E i \in DOMAIN r.index :
           r.index[i].fmt # "empty" /\ ~custom_date_parser(r.index[i]).ok
    THEN [raised |-> TRUE, frame |-> EmptyFrame]
    ELSE [raised |-> FALSE,
          frame |-> [index |-> [i \in DOMAIN r.index |->
                                   IF r.index[i].fmt = "empty" THEN NaT
                                   ELSE custom_date_parser(r.index[i]).value],
                     columns |-> r.columns,
                     dtype |-> r.dtype,
                     data |-> r.data]]

\* df.index.isnull().any()
IndexHasNull(d) == \E i \in DOMAIN d.index : d.index[i] = NaT

WarnParse == "Warning: Some date values could not be parsed correctly. Check the index."

\* st.error(f"Error loading CSV: {e}")
ErrLoad == "Error loading CSV: {e}"

\* load_data: the try block, and the except block's empty DataFrame
LoadData ==
    /\ pc = "start"
    /\ LET r == read_csv(raw)
       IN IF r.raised
          THEN /\ df' = EmptyFrame
               /\ msgs' = {ErrLoad}
          ELSE /\ df' = r.frame
               /\ msgs' = IF IndexHasNull(r.frame) THEN {WarnParse} ELSE {}
    /\ pc' = "loaded"
    /\ UNCHANGED <<raw, exc, plotVars, mongoVars>>
-----------------------------------------------------------------------------
(* page_plots *)

\* len(idx_options_full) > 100
DownsampleThreshold == 100

\* the divisor of the stride, len(idx_options_full)//100 + 1
StrideDivisor == 100

\* str(x) of an index entry: a Timestamp prints its instant, NaT prints "NaT"
Str(x) == IF x = NaT THEN "NaT" ELSE ToString(x[1])

\* [str(x) for x in df.index]
IdxOptionsFull(d) == [i \in DOMAIN d.index |-> Str(d.index[i])]

\* seq[::k]: the entries at 0-based positions 0, k, 2k, ...
Slice(seq, k) ==
    IF Len(seq) = 0 THEN <<>>
    ELSE [j \in 1..((Len(seq) - 1) \div k + 1) |-> seq[(j - 1) * k + 1]]

\* x in seq
Contains(seq, x) == \E i \in DOMAIN seq : seq[i] = x

\* a stride that is the floor alone, at least 1
StrideFloor(n) == IF n \div StrideDivisor < 1 THEN 1 ELSE n \div StrideDivisor

\* the stride of the downsampled labels
Stride(n) == n \div StrideDivisor + 1

\* the sampled labels alone, the last label never appended
AppendNever(sampled, full) == sampled

\* the last label is appended when no sampled label equals it
AppendLast(sampled, full) ==
    IF ~Contains(sampled, full[Len(full)])
    THEN Append(sampled, full[Len(full)])
    ELSE sampled

\* idx_options of a non-empty idx_options_full
IdxOptions(full) ==
    IF Len(full) > DownsampleThreshold
    THEN AppendLast(Slice(full, Stride(Len(full))), full)
    ELSE full

\* list.index(x): the 0-based position of the first entry equal to x, and -1
\* for the ValueError of an absent x
ListIndex(list, x) ==
    IF Contains(list, x)
    THEN SetMin({i \in DOMAIN list : list[i] = x}) - 1
    ELSE -1

\* the two positions kept in the order given
SwapNever(s, e) == <<s, e>>

\* if s_idx > e_idx: s_idx, e_idx = e_idx, s_idx
SwapIfReversed(s, e) == IF s > e THEN <<e, s>> ELSE <<s, e>>

\* s_idx, e_idx of the slider value (a, b)
ResolveSpan(full, a, b) == SwapIfReversed(ListIndex(full, a), ListIndex(full, b))

\* d.iloc[s:e + 1] for 0 <= s
Iloc(d, s, e) ==
    [index |-> SubSeq(d.index, s + 1, e + 1),
     columns |-> d.columns,
     dtype |-> d.dtype,
     data |-> [c \in DOMAIN d.data |-> SubSeq(d.data[c], s + 1, e + 1)]]

\* d.select_dtypes(include='number').columns
NumCols(d) == SelectSeq(d.columns, LAMBDA c : d.dtype[c] = "number")

\* the present values of a float column
Present(col) == {col[i][1] : i \in {j \in DOMAIN col : col[j] # NaN}}

\* Series.min() and Series.max(): missing cells are skipped, NaN when none is left
ColMin(col) == IF Present(col) = {} THEN NaN ELSE Some(SetMin(Present(col)))

ColMax(col) == IF Present(col) = {} THEN NaN ELSE Some(SetMax(Present(col)))

\* the float quotient n/d: 0/0 is NaN, and n/0 is kept as <<n, 0>> (an infinity)
Div(n, d) == IF n = 0 /\ d = 0 THEN NaN ELSE <<n, d>>

\* (col - lo) / (hi - lo), NaN wherever an operand is NaN
NormalizeCol(col, lo, hi) ==
    [i \in DOMAIN col |->
        IF col[i] = NaN \/ lo = NaN \/ hi = NaN THEN NaN
        ELSE Div(col[i][1] - lo[1], hi[1] - lo[1])]

\* the minimum of the column over the whole table
NormMinWholeTable(df_num, c) == ColMin(df.data[c])

\* df_num.min() and df_num.max() of one column of df_num
NormMin(df_num, c) == ColMin(df_num.data[c])

NormMax(df_num, c) == ColMax(df_num.data[c])

\* (df_num - df_num.min()) / (df_num.max() - df_num.min())
DfNorm(df_num) ==
    [c \in Range(NumCols(df_num)) |->
        NormalizeCol(df_num.data[c], NormMin(df_num, c), NormMax(df_num, c))]

\* pd.to_numeric(..., errors='coerce') of one cell of an object column
CoerceText(s) == IF s = "7" THEN Some(7) ELSE NaN

\* pd.to_numeric(d[c], errors='coerce')
ToNumeric(d, c) ==
    IF d.dtype[c] = "number" THEN d.data[c]
    ELSE [i \in DOMAIN d.data[c] |-> CoerceText(d.data[c][i])]

ErrIndexEmpty == "Index appears empty. Check CSV and index parsing."

ErrTwoPoints == "Index needs at least two points."

WarnNoNumeric == "No numeric columns."

CaptionNormalized == "All numeric columns normalized to [0,1]"

WarnTwoNumeric == "Need at least two numeric columns."

InfoTwoDifferent == "Select two different columns."

NoChart == [kind |-> "none"]

\* tab1 of page_plots: the chart and the messages for the selectbox value
Tab1(filtered, choice) ==
    IF choice = "All"
    THEN IF Len(NumCols(filtered)) = 0
         THEN [chart |-> NoChart, msgs |-> {WarnNoNumeric}]
         ELSE [chart |-> [kind |-> "normalized", data |-> DfNorm(filtered)],
               msgs |-> {CaptionNormalized}]
    ELSE [chart |-> [kind |-> "series", column |-> choice,
                     data |-> ToNumeric(filtered, choice)],
          msgs |-> {}]

\* tab2 of page_plots with its two selectboxes at c1 and c2
Tab2(filtered, c1, c2) ==
    IF Len(NumCols(filtered)) < 2
    THEN [out |-> [kind |-> "none"], msgs |-> {WarnTwoNumeric}]
    ELSE IF c1 # c2
         THEN [out |-> [kind |-> "figure", left |-> c1, right |-> c2], msgs |-> {}]
         ELSE [out |-> [kind |-> "none"], msgs |-> {InfoTwoDifferent}]

\* the slider positions the model tries for n labels
PickPositions(n) == IF n <= MaxPick THEN 1..n ELSE {1, n \div 2, n}

\* df.empty
DfEmpty(d) == Len(d.index) = 0 \/ Len(d.columns) = 0

\* page_plots returned before the slider: nothing resolved, nothing drawn
PlotsStopped(full, opts, message) ==
    /\ idx_options_full' = full
    /\ idx_options' = opts
    /\ msgs' = {message}
    /\ sel' = <<>>
    /\ s_idx' = -1
    /\ e_idx' = -1
    /\ df_filtered' = EmptyFrame
    /\ chosen' = ""
    /\ chart' = NoChart
    /\ tab2' = [kind |-> "none"]
    /\ exc' = "none"

\* page_plots from the slider on, with the widgets at (a, b), choice, c1, c2
PlotsDrawn(full, opts, a, b, choice, c1, c2) ==
    LET span == ResolveSpan(full, a, b)
        filtered == Iloc(df, span[1], span[2])
        t1 == Tab1(filtered, choice)
        t2 == Tab2(filtered, c1, c2)
    IN /\ idx_options_full' = full
       /\ idx_options' = opts
       /\ sel' = <<a, b>>
       /\ IF ~Contains(full, a) \/ ~Contains(full, b)
          THEN /\ exc' = "ValueError"
               /\ s_idx' = -1
               /\ e_idx' = -1
               /\ df_filtered' = EmptyFrame
               /\ chosen' = ""
               /\ chart' = NoChart
               /\ tab2' = [kind |-> "none"]
               /\ msgs' = {}
          ELSE /\ exc' = "none"
               /\ s_idx' = span[1]
               /\ e_idx' = span[2]
               /\ df_filtered' = filtered
               /\ chosen' = choice
               /\ chart' = t1.chart
               /\ tab2' = t2.out
               /\ msgs' = t1.msgs \cup t2.msgs

\* main routes to page_plots(df) when df is not empty.  Every rerun of the page
\* computes all it shows from df and the widget values alone, so the runs that
\* follow a first one reach the states a first run reaches.
PagePlots ==
    /\ pc = "loaded"
    /\ ~DfEmpty(df)
    /\ pc' = "plots"
    /\ UNCHANGED <<raw, df, mongoVars>>
    /\ LET full == IdxOptionsFull(df)
       IN IF Len(df.index) = 0
          THEN PlotsStopped(<<>>, <<>>, ErrIndexEmpty)
          ELSE LET opts == IdxOptions(full)
                   nums == NumCols(df)
               IN IF Len(opts) < 2
                  THEN PlotsStopped(full, opts, ErrTwoPoints)
                  ELSE \E i \in PickPositions(Len(opts)), j \in PickPositions(Len(opts)),
                          choice \in {"All"} \cup Range(df.columns),
                          c1 \in Range(nums) \cup {""}, c2 \in Range(nums) \cup {""} :
                          /\ (Len(nums) < 2) = (c1 = "")
                          /\ (Len(nums) < 2) = (c2 = "")
                          /\ PlotsDrawn(full, opts, opts[i], opts[j], choice, c1, c2)

\* main: "Cannot display page: Data loading failed."
ErrUnavailable == "Cannot display page: Data loading failed."

PageUnavailable ==
    /\ pc = "loaded"
    /\ DfEmpty(df)
    /\ pc' = "unavailable"
    /\ msgs' = {ErrUnavailable}
    /\ UNCHANGED <<raw, df, exc, plotVars, mongoVars>>

-----------------------------------------------------------------------------
(* The CSV files the model loads *)

RawCells ==
    {[fmt |-> "iso", t |-> t] : t \in 0..MaxT}
        \cup {[fmt |-> "empty", t |-> 0], [fmt |-> "other", t |-> 0]}

Vals == {NaN} \cup {Some(v) : v \in 0..MaxVal}

Iso(t) == [fmt |-> "iso", t |-> t]

TextCol(n) == [i \in 1..n |-> IF i % 2 = 1 THEN "n/a" ELSE "7"]

RampCol(n) == [i \in 1..n |-> Some(10 * i)]

ConstCol(n) == [i \in 1..n |-> Some(5)]

\* a file with the numeric columns a and b and the text column txt
File(index, a, b) ==
    [index |-> index,
     columns |-> <<"a", "b", "txt">>,
     dtype |-> [a |-> "number", b |-> "number", txt |-> "object"],
     data |-> [a |-> a, b |-> b, txt |-> TextCol(Len(index))]]

\* a file with a text column only
TextFile(index) ==
    [index |-> index,
     columns |-> <<"txt">>,
     dtype |-> [txt |-> "object"],
     data |-> [txt |-> TextCol(Len(index))]]

\* every index of up to MaxRows cells, over fixed columns
IndexFiles ==
    UNION {{File(index, RampCol(n), ConstCol(n)) : index \in [1..n -> RawCells]}
              : n \in 0..MaxRows}

\* every column a of up to MaxRows cells, over an hourly index
ValueFiles ==
    UNION {{File([i \in 1..n |-> Iso(i - 1)], a, b)
               : a \in [1..n -> Vals], b \in {RampCol(n), ConstCol(n)}}
              : n \in 1..MaxRows}
        \cup {TextFile([i \in 1..n |-> Iso(i - 1)]) : n \in 1..MaxRows}

\* long indexes: hourly; one timestamp throughout; every timestamp twice; hourly
\* with the last row repeating the first timestamp
LongIndex(n, shape) ==
    [i \in 1..n |->
        CASE shape = "hourly" -> Iso(i - 1)
          [] shape = "same" -> Iso(0)
          [] shape = "twice" -> Iso((i - 1) \div 2)
          [] shape = "wrap" -> IF i = n THEN Iso(0) ELSE Iso(i - 1)]

LongLens == {k * StrideDivisor + d : k \in 1..MaxHundreds, d \in (0 - Margin)..Margin}

LongFiles ==
    {File(LongIndex(n, shape), RampCol(n), ConstCol(n))
        : n \in LongLens, shape \in {"hourly", "same", "twice", "wrap"}}

NoMongo == [password |-> "", reachable |-> FALSE, docs |-> <<>>]

InitPlotVars ==
    /\ idx_options_full = <<>>
    /\ idx_options = <<>>
    /\ sel = <<>>
    /\ s_idx = -1
    /\ e_idx = -1
    /\ df_filtered = EmptyFrame
    /\ chosen = ""
    /\ chart = NoChart
    /\ tab2 = [kind |-> "none"]

InitMongoVars ==
    /\ pa = ""
    /\ month = ""
    /\ agg = <<>>
    /\ df_m = <<>>

Init ==
    /\ pc = "start"
    /\ raw \in IndexFiles \cup ValueFiles \cup LongFiles
    /\ df = EmptyFrame
    /\ msgs = {}
    /\ exc = "none"
    /\ InitPlotVars
    /\ mongo = NoMongo
    /\ InitMongoVars

\* main with the sidebar at "Plots"
Next == LoadData \/ PagePlots \/ PageUnavailable

Spec == Init /\ [][Next]_vars
-----------------------------------------------------------------------------
(* page_mongo_dashboard *)

\* the sum of a sequence of numbers
RECURSIVE SeqSum(_)
SeqSum(q) == IF q = <<>> THEN 0 ELSE q[1] + SeqSum(Tail(q))

\* pd.to_datetime of a startTime written <<year, month, day, hour>>
ToDatetime(t) == [year |-> t[1], month |-> t[2], day |-> t[3], hour |-> t[4]]

\* datetime(2021, m, 1).strftime("%B")
MonthNames ==
    <<"January", "February", "March", "April", "May", "June", "July", "August",
      "September", "October", "November", "December">>

\* months = [datetime(2021, m, 1).strftime("%B") for m in range(1, 13)]
months == [m \in 1..12 |-> MonthNames[m]]

\* the 0-based position of the month name in the list
MnumZeroBased(name) == (CHOOSE m \in DOMAIN MonthNames : MonthNames[m] = name) - 1

\* datetime.strptime(month, "%B").month
Mnum(name) == CHOOSE m \in DOMAIN MonthNames : MonthNames[m] = name

\* the row labels of a DataFrame built from a list: 0, 1, ...
RowLabels(docs) == [i \in 1..Len(docs) |-> i - 1]

\* sorted(df[field].dropna().unique()), as a set
PriceAreas(docs) == {docs[i].priceArea : i \in DOMAIN docs}

Groups(docs) == {docs[i].productionGroup : i \in DOMAIN docs}

\* df[df["priceArea"] == pa], as row labels
DfPa(docs, area) == SelectSeq(RowLabels(docs), LAMBDA p : docs[p + 1].priceArea = area)

\* the quantities of the rows with the labels in rows
Quantities(docs, rows) == [i \in DOMAIN rows |-> docs[rows[i] + 1].quantityKwh]

\* df_pa.groupby("productionGroup")["quantityKwh"].sum(), one group's total
GroupTotal(docs, area, g) ==
    SeqSum(Quantities(docs, SelectSeq(DfPa(docs, area),
                                      LAMBDA p : docs[p + 1].productionGroup = g)))

\* .sort_values(ascending=False): the orders of the groups of df_pa by total
\* descending; the order of equal totals is whichever the sort yields
AggOrders(docs, area) ==
    LET gs == {docs[p + 1].productionGroup : p \in Range(DfPa(docs, area))}
        n == Cardinality(gs)
    IN {[i \in 1..n |-> <<f[i], GroupTotal(docs, area, f[i])>>] :
           f \in {h \in [1..n -> gs] :
                     /\ \A i, j \in 1..n : i # j => h[i] # h[j]
                     /\ \A i \in 1..(n - 1) :
                            GroupTotal(docs, area, h[i]) >= GroupTotal(docs, area, h[i + 1])}}

\* df[(df["priceArea"] == pa) & (df["startTime"].dt.month == mnum)], then
\* df_m[df_m["productionGroup"].isin(chosen)] if chosen is not empty
MonthSelection(docs, area, name, groups) ==
    LET byMonth == SelectSeq(RowLabels(docs),
                       LAMBDA p : /\ docs[p + 1].priceArea = area
                                  /\ ToDatetime(docs[p + 1].startTime).month = Mnum(name))
    IN IF groups # {}
       THEN SelectSeq(byMonth, LAMBDA p : docs[p + 1].productionGroup \in groups)
       ELSE byMonth

\* a cell of the pivot computed with aggfunc="max"
PivotCellMax(docs, rows, t, g) ==
    LET hit == SelectSeq(rows, LAMBDA p : /\ docs[p + 1].startTime = t
                                          /\ docs[p + 1].productionGroup = g)
    IN IF hit = <<>> THEN NaN ELSE Some(SetMax(Range(Quantities(docs, hit))))

\* a cell of pivot_table(index="startTime", columns="productionGroup",
\* values="quantityKwh", aggfunc="sum"): NaN where no row has (t, g)
PivotCell(docs, rows, t, g) ==
    LET hit == SelectSeq(rows, LAMBDA p : /\ docs[p + 1].startTime = t
                                          /\ docs[p + 1].productionGroup = g)
    IN IF hit = <<>> THEN NaN ELSE Some(SeqSum(Quantities(docs, hit)))

\* .fillna(0) of one cell
FillNa0(cell) == IF cell = NaN THEN 0 ELSE cell[1]

\* the pivot of the rows df_m: startTime -> productionGroup -> filled cell
Pivot(docs, rows) ==
    [t \in {docs[p + 1].startTime : p \in Range(rows)} |->
        [g \in {docs[p + 1].productionGroup : p \in Range(rows)} |->
            FillNa0(PivotCell(docs, rows, t, g))]]

ErrPassword ==
    "MongoDB password is missing. Please set the environment variable MONGO_PASSWORD."

\* st.error(f"MongoDB connection failed: {e}")
ErrConnection == "MongoDB connection failed: {e}"

WarnNoData == "No data found in MongoDB."

WarnNoSelection == "No data for this selection."

\* st.caption(f"{pa} - {month} 2021")
CaptionMonth == "{pa} - {month} 2021"

\* page_mongo_dashboard returned before the charts
MongoStopped(message) ==
    /\ msgs' = {message}
    /\ pa' = ""
    /\ month' = ""
    /\ chosen' = {}
    /\ agg' = <<>>
    /\ df_m' = <<>>
    /\ chart' = NoChart

\* main routes to page_mongo_dashboard()
PageMongoDashboard ==
    /\ pc = "loaded"
    /\ pc' = "mongo"
    /\ UNCHANGED <<raw, df, exc, mongo, idx_options_full, idx_options, sel, s_idx,
                   e_idx, df_filtered, tab2>>
    /\ IF mongo.password = "" THEN MongoStopped(ErrPassword)
       ELSE IF ~mongo.reachable THEN MongoStopped(ErrConnection)
       ELSE IF Len(mongo.docs) = 0 THEN MongoStopped(WarnNoData)
       ELSE \E area \in PriceAreas(mongo.docs), groups \in SUBSET Groups(mongo.docs),
               name \in Range(months) :
               \E order \in AggOrders(mongo.docs, area) :
               LET rows == MonthSelection(mongo.docs, area, name, groups)
               IN /\ pa' = area
                  /\ agg' = order
                  /\ chosen' = groups
                  /\ month' = name
                  /\ df_m' = rows
                  /\ IF rows = <<>>
                     THEN /\ chart' = NoChart
                          /\ msgs' = {WarnNoSelection}
                     ELSE /\ chart' = [kind |-> "pivot", data |-> Pivot(mongo.docs, rows)]
                          /\ msgs' = {CaptionMonth}

-----------------------------------------------------------------------------
(* The collections the model reads *)

Doc(area, g, t, q) ==
    [priceArea |-> area, productionGroup |-> g, startTime |-> t, quantityKwh |-> q]

DocPool ==
    {Doc("NO1", "hydro", <<2021, 1, 1, 0>>, 10),
     Doc("NO1", "wind", <<2021, 1, 1, 0>>, 5),
     Doc("NO1", "hydro", <<2021, 1, 1, 1>>, 5),
     Doc("NO1", "hydro", <<2021, 12, 31, 23>>, 7),
     Doc("NO2", "hydro", <<2021, 1, 1, 0>>, 3),
     Doc("NO1", "wind", <<2021, 2, 1, 0>>, 2)}

Collections == UNION {[1..n -> DocPool] : n \in 0..MaxDocs}

\* the CSV file main loads before it routes to the dashboard
DashboardFile == File(<<Iso(0), Iso(1)>>, RampCol(2), ConstCol(2))

InitMongo ==
    /\ pc = "start"
    /\ raw = DashboardFile
    /\ df = EmptyFrame
    /\ msgs = {}
    /\ exc = "none"
    /\ InitPlotVars
    /\ \/ mongo \in {[password |-> "pw", reachable |-> TRUE, docs |-> d] : d \in Collections}
       \/ mongo \in {[password |-> "", reachable |-> TRUE, docs |-> <<>>],
                    [password |-> "pw", reachable |-> FALSE, docs |-> <<>>]}
    /\ InitMongoVars

\* main with the sidebar at "Mongo Dashboard"
NextMongo == LoadData \/ PageMongoDashboard

SpecMongo == InitMongo /\ [][NextMongo]_vars

-----------------------------------------------------------------------------
(* Properties of the plots page *)

\* the values a float column holds
ValuesOf(col) == {col[i][1] : i \in {j \in DOMAIN col : col[j] # NaN}}

\* a page_plots run that resolved a range
RangeResolved == pc = "plots" /\ sel # <<>>

\* C1: the rows page_plots shows for the slider value (a, b) are the rows it
\* shows for (b, a), and resolving the range raises nothing.
C1_OrderIndependent ==
    RangeResolved =>
        /\ exc = "none"
        /\ LET rev == ResolveSpan(idx_options_full, sel[2], sel[1])
           IN /\ <<s_idx, e_idx>> = rev
              /\ df_filtered = Iloc(df, rev[1], rev[2])

\* a range given end first, spanning several rows
C1_Witness ==
    /\ RangeResolved
    /\ ListIndex(idx_options_full, sel[1]) > ListIndex(idx_options_full, sel[2])
    /\ Len(df_filtered.index) >= 2

\* C2: the slider's labels hold the label of the last row of the index.
C2_LastLabelShown ==
    pc = "plots" => Contains(idx_options, Str(df.index[Len(df.index)]))

\* a downsampled index whose last row is off the stride and whose last
\* timestamp is on no other row
C2_Witness ==
    /\ pc = "plots"
    /\ Len(df.index) > DownsampleThreshold
    /\ (Len(df.index) - 1) % Stride(Len(df.index)) # 0
    /\ \A i \in 1..(Len(df.index) - 1) : df.index[i] # df.index[Len(df.index)]
    /\ idx_options[Len(idx_options)] = Str(df.index[Len(df.index)])

\* the labels of full at 0-based positions 0, s, 2s, ...
OnStride(full, s) == [j \in 1..((Len(full) - 1) \div s + 1) |-> full[(j - 1) * s + 1]]

\* C9 as amended: up to 100 rows every index label is a slider label; beyond,
\* the slider labels are the index sampled with stride N // 100 + 1, followed by
\* the final label when no sampled label equals it.
C9_StrideAsCoded ==
    pc = "plots" =>
        LET full == idx_options_full
            N == Len(full)
            s == N \div StrideDivisor + 1
            k == (N - 1) \div s + 1
        IN IF N <= DownsampleThreshold
           THEN idx_options = full
           ELSE /\ \A j \in 1..k : idx_options[j] = full[(j - 1) * s + 1]
                /\ Len(idx_options) =
                       IF \E j \in 1..k : full[(j - 1) * s + 1] = full[N] THEN k ELSE k + 1
                /\ Len(idx_options) = k + 1 => idx_options[k + 1] = full[N]

\* a downsampled index whose final label was appended
C9_Witness ==
    /\ pc = "plots"
    /\ Len(idx_options_full) > DownsampleThreshold
    /\ Len(idx_options) = (Len(idx_options_full) - 1) \div Stride(Len(idx_options_full)) + 2

\* C9 as stated: the stride is max(1, N // 100), the final label follows when
\* it is off the stride, and below 200 rows every index label is a slider label.
C9_StrideAsStated ==
    pc = "plots" =>
        LET full == idx_options_full
            N == Len(full)
            s == IF N \div 100 < 1 THEN 1 ELSE N \div 100
        IN /\ idx_options =
                  OnStride(full, s) \o (IF (N - 1) % s # 0 THEN <<full[N]>> ELSE <<>>)
           /\ N < 200 => Range(full) \subseteq Range(idx_options)

\* C3 as stated: an index cell that is not in the format leaves load_data with
\* one index entry per raw row, the cell carried as NaT, and the warning alone.
C3_MalformedKept ==
    (pc = "loaded" /\ \E i \in DOMAIN raw.index : raw.index[i].fmt = "other") =>
        /\ Len(df.index) = Len(raw.index)
        /\ \A i \in DOMAIN raw.index : raw.index[i].fmt = "other" => df.index[i] = NaT
        /\ msgs = {WarnParse}

\* C4: in the "All" chart a column that is not constant over the shown rows is
\* scaled by the minimum and maximum of the shown rows: every present value lies
\* in [0,1] and equals (v - lo)/(hi - lo), lo goes to 0 and hi to 1.
C4_NormalizedOverRange ==
    (pc = "plots" /\ chart.kind = "normalized") =>
        \A c \in Range(NumCols(df_filtered)) :
            LET col == df_filtered.data[c]
            IN Cardinality(ValuesOf(col)) >= 2 =>
                   LET lo == SetMin(ValuesOf(col))
                       hi == SetMax(ValuesOf(col))
                   IN \A i \in DOMAIN col :
                          LET q == chart.data[c][i]
                          IN IF col[i] = NaN THEN q = NaN
                             ELSE /\ q # NaN
                                  /\ q[2] > 0
                                  /\ 0 <= q[1] /\ q[1] <= q[2]
                                  /\ q[1] * (hi - lo) = (col[i][1] - lo) * q[2]
                                  /\ col[i][1] = lo => q[1] = 0
                                  /\ col[i][1] = hi => q[1] = q[2]

\* a proper sub-range whose minimum of column a is above the table's minimum
C4_Witness ==
    /\ pc = "plots"
    /\ chart.kind = "normalized"
    /\ Len(df_filtered.index) < Len(df.index)
    /\ Cardinality(ValuesOf(df_filtered.data.a)) >= 2
    /\ SetMin(ValuesOf(df_filtered.data.a)) > SetMin(ValuesOf(df.data.a))

\* C5 as stated: a column that is constant over the shown rows is not among the
\* series handed to the "All" chart.
C5_ConstantNotCharted ==
    (pc = "plots" /\ chart.kind = "normalized") =>
        \A c \in DOMAIN chart.data :
            Cardinality(ValuesOf(df_filtered.data[c])) # 1

\* C8 as stated: an index with fewer than two distinct points stops page_plots
\* with the selection error, no range and no chart.
C8_DistinctPointsNeeded ==
    (pc = "plots" /\ Cardinality(Range(idx_options_full)) < 2) =>
        /\ msgs = {ErrTwoPoints}
        /\ sel = <<>>
        /\ chart = NoChart

\* C10 as stated: the slider's default value resolves to the whole table.
C10_DefaultIsWholeTable ==
    (RangeResolved /\ sel = <<idx_options[1], idx_options[Len(idx_options)]>>) =>
        /\ s_idx = 0
        /\ e_idx = Len(df.index) - 1
        /\ Len(df_filtered.index) = Len(df.index)
-----------------------------------------------------------------------------
(* Properties of the dashboard *)

\* a dashboard run that drew the pie chart and resolved the month selection
DashboardShown == pc = "mongo" /\ pa # ""

\* the sum of f over a finite set
RECURSIVE SetSum(_, _)
SetSum(f(_), S) ==
    IF S = {} THEN 0
    ELSE LET x == CHOOSE y \in S : TRUE IN f(x) + SetSum(f, S \ {x})

\* the sum of all cells of column g of a pivot
ColumnSum(pivot, g) ==
    LET cell(t) == IF g \in DOMAIN pivot[t] THEN pivot[t][g] ELSE 0
    IN SetSum(cell, DOMAIN pivot)

\* the sum of column g over the pivots of the twelve months
TwelveMonthSum(docs, area, groups, g) ==
    LET one(name) == ColumnSum(Pivot(docs, MonthSelection(docs, area, name, groups)), g)
    IN SetSum(one, Range(months))

\* g's total in the pie chart's series, 0 for a group the series lacks
AggTotal(series, g) ==
    IF \E i \in DOMAIN series : series[i][1] = g
    THEN series[CHOOSE i \in DOMAIN series : series[i][1] = g][2]
    ELSE 0

====
